---- MODULE Spec2Model ----
(***************************************************************************)
(* Model of src/optimizer/rules/rules.py: the rule categories, the pattern *)
(* matcher, the rewrite and implementation rules, and the rule registry.   *)
(***************************************************************************)
EXTENDS Integers, Sequences, FiniteSets, TLC

VARIABLES
    memo,          \* group id -> sequence (empty or one) of logical expressions
    matchKind,     \* the last query: "" (none), "deep" or "top"
    matchGroup,    \* the group id of the last match
    matchResult,   \* its boolean result, for each pattern
    heap,          \* operator id -> logical operator object
    root,          \* operator id at the root of the plan tree
    heapBefore,    \* the heap as it was when the last apply was called
    lastRule,      \* class name of the rule applied last ("" before any)
    lastBefore,    \* operator id handed to the last apply
    lastAfter,     \* operator id it returned (0: a physical plan / nothing)
    history,       \* class names of the rewrite rules applied, in order
    plan,          \* physical plans produced by LogicalGetToSeqScan.apply
    instance,      \* RulesManager._instance (0: None)
    rewrite_rules,         \* id of the list held by _rewrite_rules (0: unset)
    implementation_rules,  \* id of the list held by _implementation_rules
    lists,         \* list id -> sequence of rule object ids
    rules,         \* rule object id -> [cls, rule_type]
    first,         \* the two list ids set by the first construction
    held           \* client -> the two list ids it obtained last

matchVars == <<memo, matchKind, matchGroup, matchResult>>
applyVars == <<heap, root, heapBefore, lastRule, lastBefore, lastAfter, history, plan>>
regVars == <<instance, rewrite_rules, implementation_rules, lists, rules, first, held>>
vars == <<matchVars, applyVars, regVars>>

-----------------------------------------------------------------------------
(* Bounds *)

MaxGroup == 2
MaxArity == 2
MaxAcquire == 3
NumClients == 2

-----------------------------------------------------------------------------
(* OperatorType tags used by the rules' patterns *)

OperatorType ==
    {"LOGICALFILTER", "LOGICALGET", "LOGICALPROJECT", "LOGICALCREATE",
     "LOGICALCREATEUDF", "LOGICALINSERT", "LOGICALLOADDATA", "DUMMY"}

(* Pattern(opr_type): a pattern node without children *)
Pattern(opr_type) == [opr_type |-> opr_type, children |-> <<>>]

(* pattern.append_child(child) *)
append_child(pattern, child) ==
    [pattern EXCEPT !.children = Append(@, child)]

-----------------------------------------------------------------------------
(* The memo: every group holds at most one logical expression *)

Groups == 1..MaxGroup

(* memo.get_group(grp_id).get_logical_expr(): <<>> stands for None *)
get_logical_expr(ctx_memo, grp_id) == ctx_memo[grp_id]

RECURSIVE compare_expr_with_pattern(_, _, _)
RECURSIVE compare_children(_, _, _, _, _)

(* the loop of lines 120-123: is_equal &= compare(child_id, pattern_child)  *)
(* over zip(grp_expr.children, pattern.children), from position i on        *)
compare_children(children, ctx_memo, pattern_children, i, is_equal) ==
    IF i > Len(children) \/ i > Len(pattern_children)
    THEN is_equal
    ELSE compare_children(children, ctx_memo, pattern_children, i + 1,
            LET r == compare_expr_with_pattern(children[i], ctx_memo,
                                               pattern_children[i])
            IN  is_equal /\ r)

(* mutant: a group without a logical expression is taken as a match *)
compare_expr_with_pattern_none(grp_id, ctx_memo, pattern) ==
    LET grp_expr == get_logical_expr(ctx_memo, grp_id) IN
    IF grp_expr = <<>>
    THEN TRUE
    ELSE IF grp_expr[1].opr_type # pattern.opr_type
            \/ Len(grp_expr[1].children) # Len(pattern.children)
         THEN FALSE
         ELSE compare_children(grp_expr[1].children, ctx_memo,
                               pattern.children, 1, TRUE)

(* Rule._compare_expr_with_pattern *)
compare_expr_with_pattern(grp_id, ctx_memo, pattern) ==
    LET grp_expr == get_logical_expr(ctx_memo, grp_id) IN
    IF grp_expr = <<>>
    THEN FALSE
    ELSE IF grp_expr[1].opr_type # pattern.opr_type
            \/ Len(grp_expr[1].children) # Len(pattern.children)
         THEN FALSE
         ELSE compare_children(grp_expr[1].children, ctx_memo,
                               pattern.children, 1, TRUE)

(* mutant: top_match accepts every operator for a DUMMY pattern *)
top_match_wild(pattern, opr_type) ==
    opr_type = pattern.opr_type \/ pattern.opr_type = "DUMMY"

(* Rule.top_match: opr.type == self.pattern.opr_type *)
top_match(pattern, opr_type) == opr_type = pattern.opr_type

-----------------------------------------------------------------------------
(* RuleType(IntFlag): auto() gives the members 1, 2, 4, ... in the order   *)
(* they are written                                                        *)

(* mutant: a member added after the closing delimiter *)
RuleTypeMembers_misplaced ==
    << "EMBED_FILTER_INTO_GET", "EMBED_PROJECT_INTO_GET",
       "REWRITE_DELIMETER",
       "LOGICAL_INSERT_TO_PHYSICAL", "LOGICAL_LOAD_TO_PHYSICAL",
       "LOGICAL_CREATE_TO_PHYSICAL", "LOGICAL_CREATE_UDF_TO_PHYSICAL",
       "IMPLEMENTATION_DELIMETER",
       "LOGICAL_GET_TO_SEQSCAN" >>

RuleTypeMembers ==
    << "EMBED_FILTER_INTO_GET", "EMBED_PROJECT_INTO_GET",
       "REWRITE_DELIMETER",
       "LOGICAL_INSERT_TO_PHYSICAL", "LOGICAL_LOAD_TO_PHYSICAL",
       "LOGICAL_CREATE_TO_PHYSICAL", "LOGICAL_CREATE_UDF_TO_PHYSICAL",
       "LOGICAL_GET_TO_SEQSCAN",
       "IMPLEMENTATION_DELIMETER" >>

(* the value auto() gives the i-th member of an IntFlag *)
auto(i) == 2 ^ (i - 1)

RuleType(name) ==
    auto(CHOOSE i \in 1..Len(RuleTypeMembers) : RuleTypeMembers[i] = name)

-----------------------------------------------------------------------------
(* The rule classes: Rule.__init__(rule_type, pattern) as each subclass    *)
(* calls it                                                                *)

Rule(cls, rule_type, pattern) ==
    [cls |-> cls, rule_type |-> rule_type, pattern |-> pattern]

EmbedFilterIntoGet ==
    Rule("EmbedFilterIntoGet", RuleType("EMBED_FILTER_INTO_GET"),
         append_child(Pattern("LOGICALFILTER"), Pattern("LOGICALGET")))

EmbedProjectIntoGet ==
    Rule("EmbedProjectIntoGet", RuleType("EMBED_PROJECT_INTO_GET"),
         append_child(Pattern("LOGICALPROJECT"), Pattern("LOGICALGET")))

LogicalCreateToPhysical ==
    Rule("LogicalCreateToPhysical", RuleType("LOGICAL_CREATE_TO_PHYSICAL"),
         append_child(Pattern("LOGICALCREATE"), Pattern("DUMMY")))

LogicalCreateUDFToPhysical ==
    Rule("LogicalCreateUDFToPhysical", RuleType("LOGICAL_CREATE_UDF_TO_PHYSICAL"),
         append_child(Pattern("LOGICALCREATEUDF"), Pattern("DUMMY")))

LogicalInsertToPhysical ==
    Rule("LogicalInsertToPhysical", RuleType("LOGICAL_INSERT_TO_PHYSICAL"),
         append_child(Pattern("LOGICALINSERT"), Pattern("DUMMY")))

LogicalLoadToPhysical ==
    Rule("LogicalLoadToPhysical", RuleType("LOGICAL_LOAD_TO_PHYSICAL"),
         append_child(Pattern("LOGICALLOADDATA"), Pattern("DUMMY")))

LogicalGetToSeqScan ==
    Rule("LogicalGetToSeqScan", RuleType("LOGICAL_GET_TO_SEQSCAN"),
         append_child(Pattern("LOGICALGET"), Pattern("DUMMY")))

(* the lists RulesManager.__init__ builds, in its order *)
RewriteRuleClasses == <<EmbedFilterIntoGet, EmbedProjectIntoGet>>

ImplementationRuleClasses ==
    <<LogicalCreateToPhysical, LogicalCreateUDFToPhysical,
      LogicalInsertToPhysical, LogicalLoadToPhysical, LogicalGetToSeqScan>>

Range(s) == {s[i] : i \in DOMAIN s}

(* the patterns offered to the matcher: every rule's pattern, and further  *)
(* shapes built with Pattern() and append_child                            *)
Patterns ==
    {r.pattern : r \in Range(RewriteRuleClasses) \cup Range(ImplementationRuleClasses)}
    \cup {Pattern(t) : t \in OperatorType}
    \cup {append_child(Pattern("DUMMY"), Pattern("DUMMY")),
          append_child(append_child(Pattern("LOGICALFILTER"),
                                    Pattern("LOGICALGET")),
                       Pattern("LOGICALGET")),
          append_child(append_child(Pattern("LOGICALFILTER"),
                                    Pattern("DUMMY")),
                       Pattern("LOGICALGET")),
          append_child(Pattern("LOGICALPROJECT"),
                       append_child(Pattern("LOGICALFILTER"),
                                    Pattern("LOGICALGET")))}

-----------------------------------------------------------------------------
(* The matcher run over a memo that the search driver fills *)

(* sequences over S of length at most n *)
SeqsUpTo(S, n) == UNION {[1..k -> S] : k \in 0..n}

(* a group expression: an operator tag over child group ids; the children  *)
(* of a group are groups created after it, so the memo is acyclic          *)
ChildSeqs(g) == SeqsUpTo((g + 1)..MaxGroup, MaxArity)

NoResult == [p \in Patterns |-> FALSE]

NoMatch ==
    /\ matchKind = ""
    /\ matchGroup = 0
    /\ matchResult = NoResult

InitMatch ==
    /\ memo = [g \in Groups |-> <<>>]
    /\ NoMatch

(* the driver stores a logical expression in a group that has none yet *)
SetExpr(g, t, ch) ==
    /\ memo[g] = <<>>
    /\ memo' = [memo EXCEPT ![g] = <<[opr_type |-> t, children |-> ch]>>]
    /\ matchKind' = ""
    /\ matchGroup' = 0
    /\ matchResult' = NoResult
    /\ UNCHANGED <<applyVars, regVars>>

(* the driver offers group g to the patterns: for each pattern p it runs   *)
(* Rule._compare_expr_with_pattern(g, context, p)                          *)
DeepMatch(g) ==
    /\ matchKind' = "deep"
    /\ matchGroup' = g
    /\ matchResult' = [p \in Patterns |-> compare_expr_with_pattern(g, memo, p)]
    /\ UNCHANGED <<memo, applyVars, regVars>>

(* the driver offers the operator of g's expression to the patterns: for   *)
(* each pattern it runs top_match(opr)                                     *)
TopMatch(g) ==
    /\ memo[g] # <<>>
    /\ matchKind' = "top"
    /\ matchGroup' = g
    /\ matchResult' = [p \in Patterns |-> top_match(p, memo[g][1].opr_type)]
    /\ UNCHANGED <<memo, applyVars, regVars>>

NextMatch ==
    \/ \E g \in Groups, t \in OperatorType : \E ch \in ChildSeqs(g) : SetExpr(g, t, ch)
    \/ \E g \in Groups : DeepMatch(g)
    \/ \E g \in Groups : TopMatch(g)

-----------------------------------------------------------------------------
(* Logical operators as objects on a heap, and the rules' apply methods *)

None == "None"
Absent == "<no such attribute>"

Predicates == {"P1", "P2"}
ColumnLists == {"C1", "C2"}
Metadata == {"M1", "M2"}

LogicalProject(target_list, children) ==
    [type |-> "LOGICALPROJECT", children |-> children, predicate |-> Absent,
     target_list |-> target_list, select_list |-> Absent,
     dataset_metadata |-> Absent]

LogicalFilter(predicate, children) ==
    [type |-> "LOGICALFILTER", children |-> children, predicate |-> predicate,
     target_list |-> Absent, select_list |-> Absent,
     dataset_metadata |-> Absent]

(* the access operator: rules.py writes and reads its predicate and        *)
(* target_list, and reads its select_list and dataset_metadata             *)
LogicalGet(predicate, target_list, select_list, dataset_metadata) ==
    [type |-> "LOGICALGET", children |-> <<>>, predicate |-> predicate,
     target_list |-> target_list, select_list |-> select_list,
     dataset_metadata |-> dataset_metadata]

SeqScanPlan(predicate, columns) ==
    [raised |-> FALSE, type |-> "SeqScanPlan", predicate |-> predicate,
     columns |-> columns, children |-> <<>>]

StoragePlan(dataset_metadata) ==
    [type |-> "StoragePlan", metadata |-> dataset_metadata]

(* reading an attribute the object does not have raises AttributeError *)
AttributeError ==
    [raised |-> TRUE, type |-> "AttributeError", predicate |-> None,
     columns |-> None, children |-> <<>>]

RECURSIVE Reach(_, _)
(* the operators of the tree rooted at n *)
Reach(h, n) ==
    {n} \cup UNION {Reach(h, h[n].children[i]) : i \in DOMAIN h[n].children}

(* the memo groups of an operator tree: one group per operator *)
MemoOf(h) ==
    [g \in DOMAIN h |-> <<[opr_type |-> h[g].type, children |-> h[g].children]>>]

(* mutant: the rule hands back the filter it was given *)
EmbedFilterIntoGet_apply_same(h, before) ==
    [heap |-> h, after |-> before]

(* mutant: the access operator's other slot is reset *)
EmbedFilterIntoGet_apply_reset(h, before) ==
    LET predicate == h[before].predicate
        logical_get == h[before].children[1]
    IN  [heap |-> [h EXCEPT ![logical_get].predicate = predicate,
                            ![logical_get].target_list = None],
         after |-> logical_get]

(* EmbedFilterIntoGet.apply *)
EmbedFilterIntoGet_apply(h, before) ==
    LET predicate == h[before].predicate
        logical_get == h[before].children[1]
    IN  [heap |-> [h EXCEPT ![logical_get].predicate = predicate],
         after |-> logical_get]

(* EmbedProjectIntoGet.apply *)
EmbedProjectIntoGet_apply(h, before) ==
    LET select_list == h[before].target_list
        logical_get == h[before].children[1]
    IN  [heap |-> [h EXCEPT ![logical_get].target_list = select_list],
         after |-> logical_get]

(* LogicalGetToSeqScan.apply *)
LogicalGetToSeqScan_apply(h, before) ==
    IF h[before].predicate = Absent \/ h[before].select_list = Absent
       \/ h[before].dataset_metadata = Absent
    THEN AttributeError
    ELSE LET after == SeqScanPlan(h[before].predicate, h[before].select_list)
         IN  [after EXCEPT !.children =
                  Append(@, StoragePlan(h[before].dataset_metadata))]

(* the driver puts the replacement where the matched operator was *)
Reinsert(h, r, before, after) ==
    [heap |-> [o \in DOMAIN h |->
                  [h[o] EXCEPT !.children =
                      [i \in DOMAIN @ |-> IF @[i] = before THEN after ELSE @[i]]]],
     root |-> IF r = before THEN after ELSE r]

InitApply ==
    \E P \in Predicates, C \in ColumnLists, M \in Metadata,
       gp \in {None} \cup Predicates, gt \in {None} \cup ColumnLists,
       gs \in {Absent, None} \cup ColumnLists,
       pc \in {2, 3}, r \in {1, 2, 3} :
        /\ heap = << LogicalProject(C, <<pc>>),
                     LogicalFilter(P, <<3>>),
                     LogicalGet(gp, gt, gs, M) >>
        /\ root = r
        /\ heapBefore = heap
        /\ lastRule = ""
        /\ lastBefore = 0
        /\ lastAfter = 0
        /\ history = <<>>
        /\ plan = <<>>

(* a rewrite rule applied to operator n of the plan tree, once its pattern *)
(* matched there                                                           *)
ApplyRewrite(rule, n, r) ==
    /\ n \in Reach(heap, root)
    /\ top_match(rule.pattern, heap[n].type)
    /\ compare_expr_with_pattern(n, MemoOf(heap), rule.pattern)
    /\ LET re == Reinsert(r.heap, root, n, r.after)
       IN  /\ heap' = re.heap
           /\ root' = re.root
    /\ heapBefore' = heap
    /\ lastRule' = rule.cls
    /\ lastBefore' = n
    /\ lastAfter' = r.after
    /\ history' = Append(history, rule.cls)
    /\ UNCHANGED <<plan, matchVars, regVars>>

ApplyEmbedFilterIntoGet(n) ==
    ApplyRewrite(EmbedFilterIntoGet, n, EmbedFilterIntoGet_apply(heap, n))

ApplyEmbedProjectIntoGet(n) ==
    ApplyRewrite(EmbedProjectIntoGet, n, EmbedProjectIntoGet_apply(heap, n))

(* the access-to-scan rule applied to an access operator of the plan tree, *)
(* admitted by top_match alone: the rule's pattern, LOGICALGET over a      *)
(* DUMMY child, never deep-matches a childless access operator             *)
ApplyLogicalGetToSeqScan(n) ==
    /\ n \in Reach(heap, root)
    /\ top_match(LogicalGetToSeqScan.pattern, heap[n].type)
    /\ plan' = <<LogicalGetToSeqScan_apply(heap, n)>>
    /\ heapBefore' = heap
    /\ lastRule' = LogicalGetToSeqScan.cls
    /\ lastBefore' = n
    /\ lastAfter' = 0
    /\ UNCHANGED <<heap, root, history, matchVars, regVars>>

NextApply ==
    \/ \E n \in DOMAIN heap : ApplyEmbedFilterIntoGet(n)
    \/ \E n \in DOMAIN heap : ApplyEmbedProjectIntoGet(n)
    \/ \E n \in DOMAIN heap : ApplyLogicalGetToSeqScan(n)

-----------------------------------------------------------------------------
(* RulesManager *)

Clients == 1..NumClients

InitReg ==
    /\ instance = 0
    /\ rewrite_rules = 0
    /\ implementation_rules = 0
    /\ lists = <<>>
    /\ rules = <<>>
    /\ first = [rewrite |-> 0, implementation |-> 0]
    /\ held = [c \in Clients |-> [rewrite |-> 0, implementation |-> 0]]

(* RulesManager.__new__: the instance is created on the first call only *)
RulesManager_new(inst) == IF inst = 0 THEN 1 ELSE inst

(* the ids given to k objects created when n objects exist *)
NewIds(n, k) == [i \in 1..k |-> n + i]

(* RulesManager.__init__: two new lists of new rule objects *)
RulesManager_init(rs, ls, rw, impl) ==
    [rules |-> rs \o RewriteRuleClasses \o ImplementationRuleClasses,
     lists |-> ls \o <<NewIds(Len(rs), Len(RewriteRuleClasses)),
                       NewIds(Len(rs) + Len(RewriteRuleClasses),
                              Len(ImplementationRuleClasses))>>,
     rewrite_rules |-> Len(ls) + 1,
     implementation_rules |-> Len(ls) + 2]

(* RulesManager(): __new__, then __init__ on what __new__ returned *)
Acquire ==
    /\ Len(lists) < 2 * MaxAcquire
    /\ instance' = RulesManager_new(instance)
    /\ LET s == RulesManager_init(rules, lists, rewrite_rules, implementation_rules)
       IN  /\ rules' = s.rules
           /\ lists' = s.lists
           /\ rewrite_rules' = s.rewrite_rules
           /\ implementation_rules' = s.implementation_rules
           /\ first' = IF instance = 0
                       THEN [rewrite |-> s.rewrite_rules,
                             implementation |-> s.implementation_rules]
                       ELSE first
    /\ UNCHANGED <<held, matchVars, applyVars>>

(* a client reads the rewrite_rules property *)
GetRewriteRules(c) ==
    /\ instance # 0
    /\ held' = [held EXCEPT ![c].rewrite = rewrite_rules]
    /\ UNCHANGED <<instance, rewrite_rules, implementation_rules, lists, rules, first>>
    /\ UNCHANGED <<matchVars, applyVars>>

(* a client reads the implementation_rules property *)
GetImplementationRules(c) ==
    /\ instance # 0
    /\ held' = [held EXCEPT ![c].implementation = implementation_rules]
    /\ UNCHANGED <<instance, rewrite_rules, implementation_rules, lists, rules, first>>
    /\ UNCHANGED <<matchVars, applyVars>>

NextReg ==
    \/ Acquire
    \/ \E c \in Clients : GetRewriteRules(c)
    \/ \E c \in Clients : GetImplementationRules(c)

-----------------------------------------------------------------------------
(* Specifications: each part of the module on its own, the rest idle *)

IdleMatch ==
    /\ memo = <<>>
    /\ NoMatch

IdleApply ==
    /\ heap = <<>>
    /\ root = 0
    /\ heapBefore = <<>>
    /\ lastRule = ""
    /\ lastBefore = 0
    /\ lastAfter = 0
    /\ history = <<>>
    /\ plan = <<>>

MatchInit == InitMatch /\ IdleApply /\ InitReg

ApplyInit == IdleMatch /\ InitApply /\ InitReg

RegistryInit == IdleMatch /\ IdleApply /\ InitReg

SpecMatch == MatchInit /\ [][NextMatch]_vars

SpecApply == ApplyInit /\ [][NextApply]_vars

SpecRegistry == RegistryInit /\ [][NextReg]_vars

-----------------------------------------------------------------------------
(* Properties *)

HasExpr(m, g) == m[g] # <<>>

RuleClasses == Range(RewriteRuleClasses) \cup Range(ImplementationRuleClasses)

RECURSIVE ClaimedMatch(_, _, _)
(* the match as C1 words it: the tag is equal or the pattern's tag is the  *)
(* wildcard, the child counts are equal, every aligned pair matches        *)
ClaimedMatch(g, m, p) ==
    /\ HasExpr(m, g)
    /\ (m[g][1].opr_type = p.opr_type \/ p.opr_type = "DUMMY")
    /\ Len(m[g][1].children) = Len(p.children)
    /\ \A i \in DOMAIN p.children :
          ClaimedMatch(m[g][1].children[i], m, p.children[i])

(* C1: for every pattern p and every group g of the memo, deep_match       *)
(* returns true exactly when g holds an expression whose tag equals p's    *)
(* tag or p's tag is the wildcard, whose child count equals p's, and whose *)
(* aligned child pairs all match recursively.                              *)
C1_DeepMatchIffClaimed ==
    matchKind = "deep" =>
        \A p \in Patterns :
            matchResult[p] <=> ClaimedMatch(matchGroup, memo, p)

(* C2: for every implementation rule R and every group whose expression    *)
(* has R's logical operator tag and exactly one child group holding some   *)
(* expression, deep_match of R's pattern is true, whatever the child is.   *)
C2_ImplementationRuleMatchesAnyChild ==
    matchKind = "deep" =>
        \A i \in DOMAIN ImplementationRuleClasses :
            LET R == ImplementationRuleClasses[i]
                g == matchGroup
            IN  (/\ HasExpr(memo, g)
                 /\ memo[g][1].opr_type = R.pattern.opr_type
                 /\ Len(memo[g][1].children) = 1
                 /\ HasExpr(memo, memo[g][1].children[1]))
                => matchResult[R.pattern]

(* C9: whenever deep_match of a pattern is true on a group, top_match is   *)
(* true on the root operator of the group's expression; and where the      *)
(* children agree (equal counts, every aligned pair matches) deep_match    *)
(* and top_match give the same answer, for the DUMMY tag as for any other. *)
C9_TopMatchAgreesWithDeepMatch ==
    /\ (matchKind = "deep" /\ HasExpr(memo, matchGroup)) =>
          LET e == memo[matchGroup][1] IN
          \A p \in Patterns :
              /\ matchResult[p] => top_match(p, e.opr_type)
              /\ (/\ Len(e.children) = Len(p.children)
                  /\ \A i \in DOMAIN p.children :
                        compare_expr_with_pattern(e.children[i], memo, p.children[i]))
                 => (matchResult[p] <=> top_match(p, e.opr_type))
    /\ matchKind = "top" =>
          \A p \in Patterns :
              ~matchResult[p] => ~compare_expr_with_pattern(matchGroup, memo, p)

(* a deep match of a rule's pattern (an operator over one child) succeeded *)
C9_Witness ==
    /\ matchKind = "deep"
    /\ \E r \in RuleClasses : matchResult[r.pattern]

(* C10: deep_match on a group without a logical expression is false for    *)
(* every pattern, and a group without one among the children makes the     *)
(* match of the parent group false; the result is an ordinary boolean.     *)
C10_EmptyGroupNeverMatches ==
    /\ matchResult \in [Patterns -> BOOLEAN]
    /\ matchKind = "deep" =>
          \A p \in Patterns :
              (\/ ~HasExpr(memo, matchGroup)
               \/ \E i \in DOMAIN memo[matchGroup][1].children :
                     ~HasExpr(memo, memo[matchGroup][1].children[i]))
              => matchResult[p] = FALSE

(* a deep match went past the root checks of some pattern with children    *)
(* and met a child group without an expression                             *)
C10_Witness ==
    /\ matchKind = "deep"
    /\ HasExpr(memo, matchGroup)
    /\ \E p \in Patterns :
          /\ p.opr_type = memo[matchGroup][1].opr_type
          /\ Len(p.children) = Len(memo[matchGroup][1].children)
          /\ Len(p.children) > 0
          /\ \E i \in DOMAIN p.children :
                ~HasExpr(memo, memo[matchGroup][1].children[i])
          /\ matchResult[p] = FALSE

(* C3: the access-to-scan rule applied to an access operator with          *)
(* predicate P, output columns C in the slot projection-pushdown writes    *)
(* (target_list) and metadata M yields a sequential-scan plan with         *)
(* predicate P and columns C over one storage node carrying M.             *)
C3_ScanCarriesPushedColumns ==
    lastRule = "LogicalGetToSeqScan" =>
        /\ plan[1].raised = FALSE
        /\ plan[1].type = "SeqScanPlan"
        /\ plan[1].predicate = heap[lastBefore].predicate
        /\ plan[1].columns = heap[lastBefore].target_list
        /\ plan[1].children = <<StoragePlan(heap[lastBefore].dataset_metadata)>>

(* C4: apply of a rewrite rule leaves the operator it was given, and every *)
(* operator below it, as they were, and returns a node that is not one of  *)
(* the input tree.                                                         *)
C4_ApplyDoesNotMutateInput ==
    lastRule \in {"EmbedFilterIntoGet", "EmbedProjectIntoGet"} =>
        /\ \A o \in Reach(heapBefore, lastBefore) :
              /\ heap[o].predicate = heapBefore[o].predicate
              /\ heap[o].target_list = heapBefore[o].target_list
        /\ lastAfter \notin Reach(heapBefore, lastBefore)

(* C5: filter-pushdown and then projection-pushdown on                     *)
(* Project(C, Filter(P, Access())) leave the access operator at the root   *)
(* with predicate P and column list C; filter-pushdown leaves the          *)
(* column-list slot as it was and projection-pushdown leaves the predicate *)
(* slot as it was.                                                         *)
C5_PushdownsCompose ==
    /\ history = <<"EmbedFilterIntoGet", "EmbedProjectIntoGet">> =>
          /\ heap[root].type = "LOGICALGET"
          /\ heap[root].predicate = heap[2].predicate
          /\ heap[root].target_list = heap[1].target_list
    /\ lastRule = "EmbedFilterIntoGet" =>
          heap[lastAfter].target_list = heapBefore[lastAfter].target_list
    /\ lastRule = "EmbedProjectIntoGet" =>
          heap[lastAfter].predicate = heapBefore[lastAfter].predicate

(* both pushdowns ran, the filter's first, on an access operator whose     *)
(* slots held other values before                                          *)
C5_Witness ==
    /\ history = <<"EmbedFilterIntoGet", "EmbedProjectIntoGet">>
    /\ lastRule = "EmbedProjectIntoGet"
    /\ heapBefore[lastAfter].predicate \in Predicates
    /\ heapBefore[lastAfter].target_list \in ColumnLists
    /\ heapBefore[lastAfter].target_list # heap[lastAfter].target_list

(* C6: filter-pushdown on Filter(P, Access(pred=None)) returns the access  *)
(* operator with predicate P, and the rule does not match what it returned:*)
(* neither top_match on it nor deep_match on its group is true.            *)
C6_FilterPushdownNotReapplicable ==
    (/\ lastRule = "EmbedFilterIntoGet"
     /\ heapBefore[heapBefore[lastBefore].children[1]].predicate = None)
    =>
        /\ lastAfter = heapBefore[lastBefore].children[1]
        /\ heap[lastAfter].type = "LOGICALGET"
        /\ heap[lastAfter].predicate = heapBefore[lastBefore].predicate
        /\ ~top_match(EmbedFilterIntoGet.pattern, heap[lastAfter].type)
        /\ ~compare_expr_with_pattern(lastAfter, MemoOf(heap),
                                      EmbedFilterIntoGet.pattern)

(* filter-pushdown ran on a filter over an access operator without a       *)
(* predicate                                                               *)
C6_Witness ==
    /\ lastRule = "EmbedFilterIntoGet"
    /\ heapBefore[heapBefore[lastBefore].children[1]].predicate = None
    /\ heap[lastAfter].predicate \in Predicates

(* C7: after any sequence of RulesManager() calls the registry's two       *)
(* collections are the lists the first construction made, no rule object   *)
(* was created since, and a collection a client obtained earlier is still  *)
(* the registry's current one.                                             *)
C7_RegistryConstructedOnce ==
    instance # 0 =>
        /\ rewrite_rules = first.rewrite
        /\ implementation_rules = first.implementation
        /\ Len(rules) = Len(RewriteRuleClasses) + Len(ImplementationRuleClasses)
        /\ \A c \in Clients :
              /\ held[c].rewrite \in {0, rewrite_rules}
              /\ held[c].implementation \in {0, implementation_rules}

(* C8: a rule of the registry has a category below REWRITE_DELIMETER       *)
(* exactly when it is in rewrite_rules, and one strictly between the two   *)
(* delimiters exactly when it is in implementation_rules; every registered *)
(* rule's category is in one of the two ranges.                            *)
C8_CategoryMatchesCollection ==
    instance # 0 =>
        LET rw == Range(lists[rewrite_rules])
            impl == Range(lists[implementation_rules])
        IN  \A id \in rw \cup impl :
                LET v == rules[id].rule_type
                    isRewrite == v < RuleType("REWRITE_DELIMETER")
                    isImpl == /\ RuleType("REWRITE_DELIMETER") < v
                              /\ v < RuleType("IMPLEMENTATION_DELIMETER")
                IN  /\ isRewrite <=> id \in rw
                    /\ isImpl <=> id \in impl
                    /\ isRewrite \/ isImpl

(* the registry was built and a client holds both of its collections *)
C8_Witness ==
    /\ instance # 0
    /\ \E c \in Clients :
          /\ held[c].rewrite = rewrite_rules
          /\ held[c].implementation = implementation_rules
          /\ Len(lists[held[c].rewrite]) = Len(RewriteRuleClasses)
          /\ Len(lists[held[c].implementation]) = Len(ImplementationRuleClasses)

====
